---- MODULE Spec2Model ----
(***************************************************************************)
(* State machine of the client-side focus timers of Tom8to: the            *)
(* PomodoroProvider context (frontend/src/components/Layout.tsx, which     *)
(* holds the Pomodoro and stopwatch state and handlers) driven by the      *)
(* controls of the Timer page (frontend/src/pages/Timer.tsx).              *)
(*                                                                         *)
(* One action per handler, effect or promise continuation.  A handler runs *)
(* with the values of the render it was created in; a click is handled     *)
(* after the latest render, so a handler action reads the current state.   *)
(* The continuation of an awaited request keeps the values captured when   *)
(* the request was issued; those live in the request record.               *)
(***************************************************************************)
EXTENDS Integers, Sequences, FiniteSets, Bags, TLC

(* ------------------------------ bounds -------------------------------- *)
MaxWork == 1
MaxBreak == 1
MaxCycles == 2
MaxStopwatch == 3
MaxInFlight == 1
MaxTime == 2

(* ------------------------- program constants -------------------------- *)
SecondsPerMinute == 60
DefaultWork == 25
DefaultBreak == 5
DefaultCycles == 4

\* number | '' : the empty input of a settings field
Empty == 0
\* user === null
NoUser == "none"
Users == {"u1"}
\* answers of GET /users/{id}/categories
ServerLists == {<<"Work", "Study">>}
\* texts typed into the custom category input
CustomNames == {"", "Deep"}
\* no duration on record
NoDuration == << >>

MsgNone == ""
MsgPomodoroComplete == "Pomodoro complete!"
MsgStopwatchSaved == "Focus session saved!"
ErrCategory == "Please select or enter a category"
ErrSaveFailed == "Failed to save focus session. Please try again."
ErrMinTime == "Timer must run for at least 1 second"

\* The repository holds two Goals pages: one with an hours and a minutes field
\* (Goals.tsx:9-315) and one with a single hours-per-week field (Goals.tsx:324-482).
GoalsPages == {"hoursMinutes", "hoursPerWeek"}
NoPage == "none"

\* Goals.tsx:63, :68, :78, :80 and formatters.ts:41
MaxGoalHours == 168
MaxGoalMinutes == 59
SecondsPerHour == 3600
MaxGoalSeconds == 604800

\* Accounts of the store: the one that signs in on this client and another one.
Emails == Users \cup {"u2"}
\* Connections of the backend to the database, each with at most one open transaction.
Workers == {"w1", "w2"}
StoreCategories == {"Work"}
StoreDurations == {1, 2}

\* Texts typed into the number fields of the Goals pages, around the limits the
\* handlers test. A field holds << >> when empty and <<n>> otherwise; the
\* hours-per-week field has step 0.5 and is counted in half hours.
GoalHoursInputs == {<< >>, <<-1>>, <<0>>, <<1>>, <<MaxGoalHours - 1>>, <<MaxGoalHours>>, <<MaxGoalHours + 1>>}
GoalMinutesInputs == {<< >>, <<-1>>, <<0>>, <<1>>, <<MaxGoalMinutes>>, <<MaxGoalMinutes + 1>>}
HoursPerWeekInputs == {<< >>, <<-1>>, <<0>>, <<1>>, <<2>>, <<2 * MaxGoalHours - 1>>,
                       <<2 * MaxGoalHours>>, <<2 * MaxGoalHours + 1>>, <<2 * MaxGoalHours + 2>>}

VARIABLES
    user,
    categories,
    pomodoroRunning, pomodoroSeconds, workDuration, breakDuration, cycles,
    currentCycle, isBreak, totalWorkTime,
    pomodoroCategory, pomodoroCustomCategory, showPomodoroCustom,
    pomodoroMessage, pomodoroError,
    stopwatchRunning, stopwatchSeconds,
    stopwatchCategory, stopwatchCustomCategory, showStopwatchCustom,
    stopwatchMessage, stopwatchError,
    requests,      \* requests in flight, each with the closure of its continuation
    sent,          \* createSession calls issued by the last step
    workTicks,     \* observer: ticks processed with isBreak = false in this run
    savedInRun,    \* observer: handlePomodoroSave was invoked in this run
    sentInRun,     \* observer: a Pomodoro save of this run called createSession and has not failed
    runUser,       \* observer: the user who started the Pomodoro run, NoUser when Idle
    failedDuration, \* observer: duration of the last failed Pomodoro save, no timer change since
    goalsPage,     \* which of the two Goals pages of the repository is mounted
    goalHours, goalMinutes,  \* fields of the hours/minutes form, << >> when empty
    hoursPerWeek,  \* field of the hours-per-week form in half hours, << >> when empty
    goalCall,      \* createGoal call issued by the last step
    goalError, goalMessage,
    goalPending,   \* createGoal calls not yet answered
    user_information, focus_information, focus_goal_information, category_information,
    transactions,  \* per connection, the INSERT into focus_information not yet committed
    outcome,       \* what the store answered to the last statement
    storedUser,    \* the item 'user' of localStorage
    manualHours, manualMinutes,  \* fields of the manual entry, << >> when empty
    manualCategory, manualCustomCategory, showManualCustom,
    manualMessage, manualError,
    manualPending  \* createSession calls of the manual entry not yet answered

pomVars == <<pomodoroRunning, pomodoroSeconds, currentCycle, isBreak, totalWorkTime>>
setVars == <<workDuration, breakDuration, cycles>>
pomCatVars == <<pomodoroCategory, pomodoroCustomCategory, showPomodoroCustom>>
pomMsgVars == <<pomodoroMessage, pomodoroError>>
swVars == <<stopwatchRunning, stopwatchSeconds>>
swCatVars == <<stopwatchCategory, stopwatchCustomCategory, showStopwatchCustom>>
swMsgVars == <<stopwatchMessage, stopwatchError>>
obsVars == <<workTicks, savedInRun, sentInRun, runUser, failedDuration>>
goalVars == <<goalsPage, goalHours, goalMinutes, hoursPerWeek, goalCall, goalError,
              goalMessage, goalPending>>
dbVars == <<user_information, focus_information, focus_goal_information,
            category_information, transactions, outcome>>
manualVars == <<manualHours, manualMinutes, manualCategory, manualCustomCategory,
                showManualCustom, manualMessage, manualError, manualPending>>
extVars == <<goalVars, dbVars, storedUser, manualVars>>
clientVars == <<user, categories, pomVars, setVars, pomCatVars, pomMsgVars,
                swVars, swCatVars, swMsgVars, requests, sent, obsVars, goalVars,
                storedUser, manualVars>>
vars == <<user, categories, pomVars, setVars, pomCatVars, pomMsgVars,
          swVars, swCatVars, swMsgVars, requests, sent, obsVars, extVars>>

(* ------------------------------ helpers ------------------------------- *)
getWorkDuration == IF workDuration # Empty THEN workDuration ELSE DefaultWork
getBreakDuration == IF breakDuration # Empty THEN breakDuration ELSE DefaultBreak
getCycles == IF cycles # Empty THEN cycles ELSE DefaultCycles


\* Faulty variant: an empty custom name falls back to the category selected before.
PomodoroSelectedCategoryFallback ==
    IF showPomodoroCustom /\ pomodoroCustomCategory # ""
    THEN pomodoroCustomCategory ELSE pomodoroCategory

\* Layout.tsx:223 / :345
PomodoroSelectedCategory ==
    IF showPomodoroCustom THEN pomodoroCustomCategory ELSE pomodoroCategory
StopwatchSelectedCategory ==
    IF showStopwatchCustom THEN stopwatchCustomCategory ELSE stopwatchCategory


\* Faulty variant: the progress of the segment is counted in a break too.
currentWorkProgressInBreak == getWorkDuration * SecondsPerMinute - pomodoroSeconds

\* Layout.tsx:231-232
currentWorkProgress ==
    IF isBreak THEN 0 ELSE getWorkDuration * SecondsPerMinute - pomodoroSeconds

\* Faulty variant: the completed work segments are left out.
finalWorkTimeNoTotal == currentWorkProgress

finalWorkTime == totalWorkTime + currentWorkProgress

FirstCategory(list) == IF Len(list) > 0 THEN list[1] ELSE ""

\* Requests in flight form a bag: promises settle in any order.
InFlight == BagCardinality(requests)
Issue(reqs, r) == reqs (+) SetToBag({r})
Settle(reqs, r) == reqs (-) SetToBag({r})

\* A Pomodoro save in flight no longer describes the timer once the timer moved on.
Dirty(r) ==
    IF r.op = "pomodoro"
    THEN [r EXCEPT !.clean = FALSE, !.wasRunning = FALSE, !.duration = NoDuration]
    ELSE r

RECURSIVE CopiesOf(_, _, _)
CopiesOf(t, S, reqs) ==
    IF S = {} THEN 0
    ELSE LET r == CHOOSE x \in S : TRUE
         IN (IF Dirty(r) = t THEN CopiesIn(r, reqs) ELSE 0) + CopiesOf(t, S \ {r}, reqs)

MarkDirty(reqs) ==
    [t \in {Dirty(r) : r \in BagToSet(reqs)} |-> CopiesOf(t, BagToSet(reqs), reqs)]

\* The completion effect (Layout.tsx:185-190) is flushed before any later event.
EffectPending == pomodoroRunning /\ pomodoroSeconds = 0

\* PrivateRoute (App.tsx:11-14): the Timer page is rendered for a logged-in user only.
TimerPageShown == user # NoUser /\ ~EffectPending

LoadRequest(u) ==
    [op |-> "load", stage |-> "load", user |-> u,
     pcEmpty |-> (pomodoroCategory = ""), scEmpty |-> (stopwatchCategory = ""),
     clean |-> FALSE, wasRunning |-> FALSE, duration |-> NoDuration]

(* ------------------------------- Init --------------------------------- *)
Init ==
    /\ user = NoUser
    /\ categories = << >>
    /\ pomodoroRunning = FALSE
    /\ pomodoroSeconds = 0
    /\ workDuration = DefaultWork
    /\ breakDuration = DefaultBreak
    /\ cycles = DefaultCycles
    /\ currentCycle = 1
    /\ isBreak = FALSE
    /\ totalWorkTime = 0
    /\ pomodoroCategory = ""
    /\ pomodoroCustomCategory = ""
    /\ showPomodoroCustom = FALSE
    /\ pomodoroMessage = MsgNone
    /\ pomodoroError = MsgNone
    /\ stopwatchRunning = FALSE
    /\ stopwatchSeconds = 0
    /\ stopwatchCategory = ""
    /\ stopwatchCustomCategory = ""
    /\ showStopwatchCustom = FALSE
    /\ stopwatchMessage = MsgNone
    /\ stopwatchError = MsgNone
    /\ requests = EmptyBag
    /\ sent = << >>
    /\ workTicks = 0
    /\ savedInRun = FALSE
    /\ sentInRun = FALSE
    /\ runUser = NoUser
    /\ failedDuration = NoDuration
    /\ goalsPage = NoPage
    /\ goalHours = << >>
    /\ goalMinutes = << >>
    /\ hoursPerWeek = << >>
    /\ goalCall = << >>
    /\ goalError = MsgNone
    /\ goalMessage = MsgNone
    /\ goalPending = 0
    /\ user_information = {}
    /\ focus_information = {}
    /\ focus_goal_information = {}
    /\ category_information = {}
    /\ transactions = [w \in Workers |-> << >>]
    /\ outcome = "none"
    /\ storedUser = NoUser
    /\ manualHours = << >>
    /\ manualMinutes = << >>
    /\ manualCategory = ""
    /\ manualCustomCategory = ""
    /\ showManualCustom = FALSE
    /\ manualMessage = MsgNone
    /\ manualError = MsgNone
    /\ manualPending = 0

(* ------------------------- Pomodoro handlers -------------------------- *)
\* Faulty variant: the interval is not cleared by a pause.
PomodoroTickWhilePaused ==
    /\ pomodoroSeconds > 0
    /\ pomodoroSeconds' = IF pomodoroSeconds <= 1 THEN 0 ELSE pomodoroSeconds - 1
    /\ workTicks' = IF isBreak THEN workTicks ELSE workTicks + 1
    /\ requests' = MarkDirty(requests)
    /\ failedDuration' = NoDuration
    /\ sent' = << >>
    /\ UNCHANGED <<extVars, user, categories, pomodoroRunning, currentCycle, isBreak, totalWorkTime,
                   setVars, pomCatVars, pomMsgVars, swVars, swCatVars, swMsgVars,
                   savedInRun, sentInRun, runUser>>

\* setInterval callback of the Pomodoro timer effect (Layout.tsx:160-182)
PomodoroTick ==
    /\ pomodoroRunning /\ pomodoroSeconds > 0
    /\ pomodoroSeconds' = IF pomodoroSeconds <= 1 THEN 0 ELSE pomodoroSeconds - 1
    /\ workTicks' = IF isBreak THEN workTicks ELSE workTicks + 1
    /\ requests' = MarkDirty(requests)
    /\ failedDuration' = NoDuration
    /\ sent' = << >>
    /\ UNCHANGED <<extVars, user, categories, pomodoroRunning, currentCycle, isBreak, totalWorkTime,
                   setVars, pomCatVars, pomMsgVars, swVars, swCatVars, swMsgVars, savedInRun, sentInRun, runUser>>

PomodoroSaveRequest ==
    [op |-> "pomodoro", stage |-> "create", user |-> user,
     pcEmpty |-> (pomodoroCategory = ""), scEmpty |-> (stopwatchCategory = ""),
     clean |-> TRUE, wasRunning |-> pomodoroRunning, duration |-> <<finalWorkTime>>]

\* handlePomodoroSave up to its await (Layout.tsx:218-238).  It reads the values of the
\* render it was created in, which are the unprimed values of the calling action.
PomodoroSaveCall ==
    /\ pomodoroRunning' = FALSE
    /\ savedInRun' = TRUE
    /\ failedDuration' = NoDuration
    /\ pomodoroMessage' = pomodoroMessage
    /\ IF user = NoUser
         THEN /\ pomodoroError' = pomodoroError
              /\ sent' = << >>
              /\ requests' = MarkDirty(requests)
         ELSE IF PomodoroSelectedCategory = ""
         THEN /\ pomodoroError' = ErrCategory
              /\ sent' = << >>
              /\ requests' = MarkDirty(requests)
         ELSE /\ pomodoroError' = pomodoroError
              /\ sent' = << [from |-> "pomodoro", userid |-> user,
                             category |-> PomodoroSelectedCategory,
                             focus_time_seconds |-> finalWorkTime] >>
              /\ requests' = Issue(MarkDirty(requests), PomodoroSaveRequest)
    /\ sentInRun' = (sentInRun \/ sent' # << >>)
    /\ runUser' = runUser

handlePomodoroSave ==
    /\ PomodoroSaveCall
    /\ UNCHANGED <<extVars, user, categories, pomodoroSeconds, currentCycle, isBreak, totalWorkTime,
                   setVars, pomCatVars, swVars, swCatVars, swMsgVars, workTicks>>


\* Faulty variant: the last cycle is followed by a break as well.
MoreCyclesInclusive == currentCycle <= getCycles

\* currentCycle < getCycles() (Layout.tsx:195, :207)
MoreCycles == currentCycle < getCycles


\* Faulty variant: the finished work segment is not added.
WorkFinishedTotalStale == totalWorkTime

\* totalWorkTime + getWorkDuration() * 60 (Layout.tsx:205)
WorkFinishedTotal == totalWorkTime + getWorkDuration * SecondsPerMinute


\* Faulty variant: the cycle is not counted when its break ends.
BreakFinishedSameCycle ==
    IF MoreCycles
    THEN /\ currentCycle' = currentCycle
         /\ isBreak' = FALSE
         /\ pomodoroSeconds' = getWorkDuration * SecondsPerMinute
         /\ requests' = MarkDirty(requests)
         /\ failedDuration' = NoDuration
         /\ sent' = << >>
         /\ UNCHANGED <<pomodoroRunning, totalWorkTime, pomMsgVars, savedInRun, sentInRun, runUser>>
    ELSE /\ PomodoroSaveCall
         /\ UNCHANGED <<pomodoroSeconds, currentCycle, isBreak, totalWorkTime>>

\* Faulty variant: the finished break is added to the work total.
BreakFinishedCounted ==
    IF MoreCycles
    THEN /\ currentCycle' = currentCycle + 1
         /\ isBreak' = FALSE
         /\ pomodoroSeconds' = getWorkDuration * SecondsPerMinute
         /\ totalWorkTime' = totalWorkTime + getBreakDuration * SecondsPerMinute
         /\ requests' = MarkDirty(requests)
         /\ failedDuration' = NoDuration
         /\ sent' = << >>
         /\ UNCHANGED <<pomodoroRunning, pomMsgVars, savedInRun, sentInRun, runUser>>
    ELSE /\ PomodoroSaveCall
         /\ UNCHANGED <<pomodoroSeconds, currentCycle, isBreak, totalWorkTime>>

\* Break finished: start the next work cycle or finish (Layout.tsx:193-202)
BreakFinished ==
    IF MoreCycles
    THEN /\ currentCycle' = currentCycle + 1
         /\ isBreak' = FALSE
         /\ pomodoroSeconds' = getWorkDuration * SecondsPerMinute
         /\ requests' = MarkDirty(requests)
         /\ failedDuration' = NoDuration
         /\ sent' = << >>
         /\ UNCHANGED <<pomodoroRunning, totalWorkTime, pomMsgVars, savedInRun, sentInRun, runUser>>
    ELSE /\ PomodoroSaveCall
         /\ UNCHANGED <<pomodoroSeconds, currentCycle, isBreak, totalWorkTime>>

\* Work period finished: start the break or save (Layout.tsx:203-215)
WorkFinished ==
    /\ totalWorkTime' = WorkFinishedTotal
    /\ IF MoreCycles
         THEN /\ isBreak' = TRUE
              /\ pomodoroSeconds' = getBreakDuration * SecondsPerMinute
              /\ requests' = MarkDirty(requests)
              /\ failedDuration' = NoDuration
              /\ sent' = << >>
              /\ UNCHANGED <<pomodoroRunning, currentCycle, pomMsgVars, savedInRun, sentInRun, runUser>>
         ELSE /\ PomodoroSaveCall
              /\ UNCHANGED <<pomodoroSeconds, currentCycle, isBreak>>

\* Completion effect and handlePomodoroComplete (Layout.tsx:185-216)
handlePomodoroComplete ==
    /\ pomodoroRunning /\ pomodoroSeconds = 0
    /\ IF isBreak THEN BreakFinished ELSE WorkFinished
    /\ UNCHANGED <<extVars, user, categories, setVars, pomCatVars, swVars, swCatVars, swMsgVars,
                   workTicks>>

\* Faulty variant: the total of the previous run is kept.
handlePomodoroStartKeepsTotal ==
    /\ pomodoroMessage' = MsgNone
    /\ pomodoroError' = MsgNone
    /\ pomodoroRunning' = TRUE
    /\ currentCycle' = 1
    /\ isBreak' = FALSE
    /\ totalWorkTime' = totalWorkTime
    /\ pomodoroSeconds' = getWorkDuration * SecondsPerMinute
    /\ workTicks' = 0
    /\ savedInRun' = FALSE
    /\ sentInRun' = FALSE
    /\ runUser' = user
    /\ failedDuration' = NoDuration
    /\ requests' = MarkDirty(requests)
    /\ sent' = << >>
    /\ UNCHANGED <<extVars, user, categories, setVars, pomCatVars, swVars, swCatVars, swMsgVars>>

\* Layout.tsx:252-260
handlePomodoroStart ==
    /\ pomodoroMessage' = MsgNone
    /\ pomodoroError' = MsgNone
    /\ pomodoroRunning' = TRUE
    /\ currentCycle' = 1
    /\ isBreak' = FALSE
    /\ totalWorkTime' = 0
    /\ pomodoroSeconds' = getWorkDuration * SecondsPerMinute
    /\ workTicks' = 0
    /\ savedInRun' = FALSE
    /\ sentInRun' = FALSE
    /\ runUser' = user
    /\ failedDuration' = NoDuration
    /\ requests' = MarkDirty(requests)
    /\ sent' = << >>
    /\ UNCHANGED <<extVars, user, categories, setVars, pomCatVars, swVars, swCatVars, swMsgVars>>

handlePomodoroPause ==
    /\ pomodoroRunning' = FALSE
    /\ requests' = MarkDirty(requests)
    /\ sent' = << >>
    /\ UNCHANGED <<extVars, user, categories, pomodoroSeconds, currentCycle, isBreak, totalWorkTime,
                   setVars, pomCatVars, pomMsgVars, swVars, swCatVars, swMsgVars, obsVars>>

handlePomodoroResume ==
    /\ pomodoroRunning' = TRUE
    /\ requests' = MarkDirty(requests)
    /\ sent' = << >>
    /\ UNCHANGED <<extVars, user, categories, pomodoroSeconds, currentCycle, isBreak, totalWorkTime,
                   setVars, pomCatVars, pomMsgVars, swVars, swCatVars, swMsgVars, obsVars>>

\* The state writes of handlePomodoroReset (Layout.tsx:270-276)
PomodoroResetCall ==
    /\ pomodoroRunning' = FALSE
    /\ pomodoroSeconds' = 0
    /\ currentCycle' = 1
    /\ isBreak' = FALSE
    /\ totalWorkTime' = 0
    /\ workTicks' = 0
    /\ savedInRun' = FALSE
    /\ sentInRun' = FALSE
    /\ runUser' = NoUser
    /\ failedDuration' = NoDuration

handlePomodoroReset ==
    /\ PomodoroResetCall
    /\ requests' = MarkDirty(requests)
    /\ sent' = << >>
    /\ UNCHANGED <<extVars, user, categories, setVars, pomCatVars, pomMsgVars,
                   swVars, swCatVars, swMsgVars>>

handlePomodoroCategoryChange(value) ==
    /\ IF value = "Custom"
         THEN /\ showPomodoroCustom' = TRUE
              /\ pomodoroCategory' = FirstCategory(categories)
         ELSE /\ showPomodoroCustom' = FALSE
              /\ pomodoroCategory' = value
    /\ sent' = << >>
    /\ UNCHANGED <<extVars, user, categories, pomVars, setVars, pomodoroCustomCategory, pomMsgVars,
                   swVars, swCatVars, swMsgVars, requests, obsVars>>

setPomodoroCustomCategory(text) ==
    /\ pomodoroCustomCategory' = text
    /\ sent' = << >>
    /\ UNCHANGED <<extVars, user, categories, pomVars, setVars, pomodoroCategory, showPomodoroCustom,
                   pomMsgVars, swVars, swCatVars, swMsgVars, requests, obsVars>>

setWorkDuration(v) ==
    /\ workDuration' = v
    /\ sent' = << >>
    /\ UNCHANGED <<extVars, user, categories, pomVars, breakDuration, cycles, pomCatVars, pomMsgVars,
                   swVars, swCatVars, swMsgVars, requests, obsVars>>

setBreakDuration(v) ==
    /\ breakDuration' = v
    /\ sent' = << >>
    /\ UNCHANGED <<extVars, user, categories, pomVars, workDuration, cycles, pomCatVars, pomMsgVars,
                   swVars, swCatVars, swMsgVars, requests, obsVars>>

setCycles(v) ==
    /\ cycles' = v
    /\ sent' = << >>
    /\ UNCHANGED <<extVars, user, categories, pomVars, workDuration, breakDuration, pomCatVars,
                   pomMsgVars, swVars, swCatVars, swMsgVars, requests, obsVars>>

(* ------------------------- Stopwatch handlers ------------------------- *)
\* Faulty variant: one firing of the interval is applied twice.
StopwatchTickTwice ==
    /\ stopwatchRunning
    /\ stopwatchSeconds < MaxStopwatch
    /\ stopwatchSeconds' = stopwatchSeconds + 2
    /\ sent' = << >>
    /\ UNCHANGED <<extVars, user, categories, pomVars, setVars, pomCatVars, pomMsgVars,
                   stopwatchRunning, swCatVars, swMsgVars, requests, obsVars>>

\* setInterval callback of the stopwatch effect (Layout.tsx:299-316)
StopwatchTick ==
    /\ stopwatchRunning
    /\ stopwatchSeconds < MaxStopwatch
    /\ stopwatchSeconds' = stopwatchSeconds + 1
    /\ sent' = << >>
    /\ UNCHANGED <<extVars, user, categories, pomVars, setVars, pomCatVars, pomMsgVars,
                   stopwatchRunning, swCatVars, swMsgVars, requests, obsVars>>

handleStopwatchStart ==
    /\ stopwatchRunning' = TRUE
    /\ stopwatchMessage' = MsgNone
    /\ stopwatchError' = MsgNone
    /\ sent' = << >>
    /\ UNCHANGED <<extVars, user, categories, pomVars, setVars, pomCatVars, pomMsgVars,
                   stopwatchSeconds, swCatVars, requests, obsVars>>

handleStopwatchPause ==
    /\ stopwatchRunning' = FALSE
    /\ sent' = << >>
    /\ UNCHANGED <<extVars, user, categories, pomVars, setVars, pomCatVars, pomMsgVars,
                   stopwatchSeconds, swCatVars, swMsgVars, requests, obsVars>>

\* Faulty variant: the reset persists the elapsed time as a save does.
handleStopwatchResetSaving ==
    /\ stopwatchRunning' = FALSE
    /\ stopwatchSeconds' = 0
    /\ stopwatchMessage' = MsgNone
    /\ stopwatchError' = MsgNone
    /\ sent' = << [from |-> "stopwatch", userid |-> user,
                   category |-> StopwatchSelectedCategory,
                   focus_time_seconds |-> stopwatchSeconds] >>
    /\ requests' = Issue(requests,
                         [op |-> "stopwatch", stage |-> "create", user |-> user,
                          pcEmpty |-> (pomodoroCategory = ""),
                          scEmpty |-> (stopwatchCategory = ""),
                          clean |-> FALSE, wasRunning |-> FALSE, duration |-> NoDuration])
    /\ UNCHANGED <<extVars, user, categories, pomVars, setVars, pomCatVars, pomMsgVars,
                   swCatVars, obsVars>>

\* Layout.tsx:328-333
handleStopwatchReset ==
    /\ stopwatchRunning' = FALSE
    /\ stopwatchSeconds' = 0
    /\ stopwatchMessage' = MsgNone
    /\ stopwatchError' = MsgNone
    /\ sent' = << >>
    /\ UNCHANGED <<extVars, user, categories, pomVars, setVars, pomCatVars, pomMsgVars,
                   swCatVars, requests, obsVars>>

StopwatchSaveRequest ==
    [op |-> "stopwatch", stage |-> "create", user |-> user,
     pcEmpty |-> (pomodoroCategory = ""), scEmpty |-> (stopwatchCategory = ""),
     clean |-> FALSE, wasRunning |-> FALSE, duration |-> NoDuration]


\* Faulty variant: the check of stopwatchSeconds === 0 is missing.
handleStopwatchSaveNoMinimum ==
    /\ stopwatchRunning' = FALSE
    /\ IF user = NoUser
         THEN /\ stopwatchError' = stopwatchError
              /\ sent' = << >>
              /\ requests' = requests
         ELSE IF StopwatchSelectedCategory = ""
         THEN /\ stopwatchError' = ErrCategory
              /\ sent' = << >>
              /\ requests' = requests
         ELSE /\ stopwatchError' = stopwatchError
              /\ sent' = << [from |-> "stopwatch", userid |-> user,
                             category |-> StopwatchSelectedCategory,
                             focus_time_seconds |-> stopwatchSeconds] >>
              /\ requests' = Issue(requests, StopwatchSaveRequest)
    /\ UNCHANGED <<extVars, user, categories, pomVars, setVars, pomCatVars, pomMsgVars,
                   stopwatchSeconds, swCatVars, stopwatchMessage, obsVars>>

\* handleStopwatchSave up to its await (Layout.tsx:335-356)
handleStopwatchSave ==
    /\ stopwatchRunning' = FALSE
    /\ IF stopwatchSeconds = 0
         THEN /\ stopwatchError' = ErrMinTime
              /\ sent' = << >>
              /\ requests' = requests
         ELSE IF user = NoUser
         THEN /\ stopwatchError' = stopwatchError
              /\ sent' = << >>
              /\ requests' = requests
         ELSE IF StopwatchSelectedCategory = ""
         THEN /\ stopwatchError' = ErrCategory
              /\ sent' = << >>
              /\ requests' = requests
         ELSE /\ stopwatchError' = stopwatchError
              /\ sent' = << [from |-> "stopwatch", userid |-> user,
                             category |-> StopwatchSelectedCategory,
                             focus_time_seconds |-> stopwatchSeconds] >>
              /\ requests' = Issue(requests, StopwatchSaveRequest)
    /\ UNCHANGED <<extVars, user, categories, pomVars, setVars, pomCatVars, pomMsgVars,
                   stopwatchSeconds, swCatVars, stopwatchMessage, obsVars>>

handleStopwatchCategoryChange(value) ==
    /\ IF value = "Custom"
         THEN /\ showStopwatchCustom' = TRUE
              /\ stopwatchCategory' = FirstCategory(categories)
         ELSE /\ showStopwatchCustom' = FALSE
              /\ stopwatchCategory' = value
    /\ sent' = << >>
    /\ UNCHANGED <<extVars, user, categories, pomVars, setVars, pomCatVars, pomMsgVars,
                   swVars, stopwatchCustomCategory, swMsgVars, requests, obsVars>>

setStopwatchCustomCategory(text) ==
    /\ stopwatchCustomCategory' = text
    /\ sent' = << >>
    /\ UNCHANGED <<extVars, user, categories, pomVars, setVars, pomCatVars, pomMsgVars,
                   swVars, stopwatchCategory, showStopwatchCustom, swMsgVars,
                   requests, obsVars>>

(* ----------------------- promise continuations ------------------------ *)
\* createSession fulfilled: Layout.tsx:240-243 (Pomodoro), :358-363 (stopwatch);
\* the continuation goes on to await loadCategories.
CreateSessionResolve(r) ==
    /\ r.stage = "create"
    /\ requests' = Issue(Settle(requests, r), [r EXCEPT !.stage = "load"])
    /\ IF r.op = "pomodoro"
         THEN /\ pomodoroMessage' = MsgPomodoroComplete
              /\ UNCHANGED <<pomodoroError, swVars, swMsgVars>>
         ELSE /\ stopwatchMessage' = MsgStopwatchSaved
              /\ stopwatchSeconds' = 0
              /\ stopwatchError' = MsgNone
              /\ UNCHANGED <<pomMsgVars, stopwatchRunning>>
    /\ sent' = << >>
    /\ UNCHANGED <<extVars, user, categories, pomVars, setVars, pomCatVars, swCatVars, obsVars>>

\* createSession rejected: Layout.tsx:246-249 (Pomodoro), :364-367 (stopwatch)
CreateSessionReject(r) ==
    /\ r.stage = "create"
    /\ requests' = Settle(requests, r)
    /\ IF r.op = "pomodoro"
         THEN /\ pomodoroError' = ErrSaveFailed
              /\ failedDuration' =
                    IF r.clean /\ user = r.user THEN r.duration ELSE NoDuration
              /\ sentInRun' = FALSE
              /\ UNCHANGED <<pomodoroMessage, swMsgVars>>
         ELSE /\ stopwatchError' = ErrSaveFailed
              /\ UNCHANGED <<pomMsgVars, stopwatchMessage, failedDuration, sentInRun>>
    /\ sent' = << >>
    /\ UNCHANGED <<extVars, user, categories, pomVars, setVars, pomCatVars, swVars, swCatVars,
                   workTicks, savedInRun, runUser>>

\* getCategories fulfilled inside loadCategories (Layout.tsx:140-148); a Pomodoro
\* save then runs handlePomodoroReset (Layout.tsx:245).
GetCategoriesResolve(r, data) ==
    /\ r.stage = "load"
    /\ categories' = data
    /\ pomodoroCategory' =
          IF r.pcEmpty /\ Len(data) > 0 THEN data[1] ELSE pomodoroCategory
    /\ stopwatchCategory' =
          IF r.scEmpty /\ Len(data) > 0 THEN data[1] ELSE stopwatchCategory
    /\ IF r.op = "pomodoro"
         THEN /\ PomodoroResetCall
              /\ requests' = MarkDirty(Settle(requests, r))
         ELSE /\ requests' = Settle(requests, r)
              /\ UNCHANGED <<pomVars, obsVars>>
    /\ sent' = << >>
    /\ UNCHANGED <<extVars, user, setVars, pomodoroCustomCategory, showPomodoroCustom, pomMsgVars,
                   swVars, stopwatchCustomCategory, showStopwatchCustom, swMsgVars>>

\* getCategories rejected: caught inside loadCategories (Layout.tsx:149-151)
GetCategoriesReject(r) ==
    /\ r.stage = "load"
    /\ IF r.op = "pomodoro"
         THEN /\ PomodoroResetCall
              /\ requests' = MarkDirty(Settle(requests, r))
         ELSE /\ requests' = Settle(requests, r)
              /\ UNCHANGED <<pomVars, obsVars>>
    /\ sent' = << >>
    /\ UNCHANGED <<extVars, user, categories, setVars, pomCatVars, pomMsgVars,
                   swVars, swCatVars, swMsgVars>>

(* ------------------------ identity and reloads ------------------------ *)
\* AuthContext.login followed by the [user] effect of the provider (Layout.tsx:131-135)
Login(u) ==
    /\ user = NoUser
    /\ InFlight < MaxInFlight
    /\ user' = u
    /\ storedUser' = u
    /\ requests' = Issue(requests, LoadRequest(u))
    /\ sent' = << >>
    /\ UNCHANGED <<goalVars, dbVars, manualVars, categories, pomVars, setVars, pomCatVars, pomMsgVars,
                   swVars, swCatVars, swMsgVars, obsVars>>

\* Faulty variant: the item 'user' stays in localStorage.
LogoutKeepsStorage ==
    /\ user # NoUser
    /\ user' = NoUser
    /\ failedDuration' = NoDuration
    /\ sent' = << >>
    /\ UNCHANGED <<extVars, categories, pomVars, setVars, pomCatVars, pomMsgVars,
                   swVars, swCatVars, swMsgVars, requests, workTicks, savedInRun, sentInRun, runUser>>

\* handleLogout (Layout.tsx:9-12); the provider sits above the router and keeps its state
Logout ==
    /\ user # NoUser
    /\ user' = NoUser
    /\ storedUser' = NoUser
    /\ failedDuration' = NoDuration
    /\ sent' = << >>
    /\ UNCHANGED <<goalVars, dbVars, manualVars, categories, pomVars, setVars, pomCatVars, pomMsgVars,
                   swVars, swCatVars, swMsgVars, requests, workTicks, savedInRun, sentInRun, runUser>>

\* The page is reloaded: the providers mount again with their initial state
\* (App.tsx:16-39, Layout.tsx:103-129), the user is restored from localStorage
\* and, when there is one, the categories are loaded (Layout.tsx:131-136); the
\* answers of the requests of the old page are lost.
Reload ==
    /\ user' = storedUser
    /\ categories' = << >>
    /\ pomodoroRunning' = FALSE
    /\ pomodoroSeconds' = 0
    /\ workDuration' = DefaultWork
    /\ breakDuration' = DefaultBreak
    /\ cycles' = DefaultCycles
    /\ currentCycle' = 1
    /\ isBreak' = FALSE
    /\ totalWorkTime' = 0
    /\ pomodoroCategory' = ""
    /\ pomodoroCustomCategory' = ""
    /\ showPomodoroCustom' = FALSE
    /\ pomodoroMessage' = MsgNone
    /\ pomodoroError' = MsgNone
    /\ stopwatchRunning' = FALSE
    /\ stopwatchSeconds' = 0
    /\ stopwatchCategory' = ""
    /\ stopwatchCustomCategory' = ""
    /\ showStopwatchCustom' = FALSE
    /\ stopwatchMessage' = MsgNone
    /\ stopwatchError' = MsgNone
    /\ requests' = IF storedUser = NoUser THEN EmptyBag
                   ELSE SetToBag({[LoadRequest(storedUser) EXCEPT !.pcEmpty = TRUE,
                                                                 !.scEmpty = TRUE]})
    /\ sent' = << >>
    /\ workTicks' = 0
    /\ savedInRun' = FALSE
    /\ sentInRun' = FALSE
    /\ runUser' = NoUser
    /\ failedDuration' = NoDuration
    /\ goalsPage' = NoPage
    /\ goalHours' = << >>
    /\ goalMinutes' = << >>
    /\ hoursPerWeek' = << >>
    /\ goalCall' = << >>
    /\ goalError' = MsgNone
    /\ goalMessage' = MsgNone
    /\ goalPending' = 0
    /\ manualHours' = << >>
    /\ manualMinutes' = << >>
    /\ manualCategory' = ""
    /\ manualCustomCategory' = ""
    /\ showManualCustom' = FALSE
    /\ manualMessage' = MsgNone
    /\ manualError' = MsgNone
    /\ manualPending' = 0
    /\ UNCHANGED <<dbVars, storedUser>>

\* reloadCategories as called by the Goals page (Goals.tsx:140, :155)
reloadCategories ==
    /\ user # NoUser
    /\ InFlight < MaxInFlight
    /\ requests' = Issue(requests, LoadRequest(user))
    /\ sent' = << >>
    /\ UNCHANGED <<extVars, user, categories, pomVars, setVars, pomCatVars, pomMsgVars,
                   swVars, swCatVars, swMsgVars, obsVars>>

(* ------------------------------ Goals pages --------------------------- *)
\* parseInt(text) || 0 (Goals.tsx:60-61): the empty field parses to NaN, which || replaces by 0
parseIntOrZero(field) == IF field = << >> THEN 0 ELSE field[1]

\* parseFloat(hoursPerWeek) (Goals.tsx:357), in half hours: the empty field gives NaN
parseFloat(field) ==
    IF field = << >> THEN [nan |-> TRUE, value |-> 0] ELSE [nan |-> FALSE, value |-> field[1]]

isNaN(x) == x.nan

\* hoursToSeconds (formatters.ts:40-42) of a number of half hours
hoursToSeconds(halfHours) == (halfHours * SecondsPerHour) \div 2

\* A Goals page mounts with empty fields (Goals.tsx:9-22, :324-331)
OpenGoals(page) ==
    /\ goalsPage' = page
    /\ goalHours' = << >>
    /\ goalMinutes' = << >>
    /\ hoursPerWeek' = << >>
    /\ goalError' = MsgNone
    /\ goalMessage' = MsgNone
    /\ goalCall' = << >>
    /\ sent' = << >>
    /\ UNCHANGED <<goalPending, dbVars, manualVars, storedUser, user, categories, pomVars, setVars, pomCatVars,
                   pomMsgVars, swVars, swCatVars, swMsgVars, requests, obsVars>>

\* setGoalHours (Goals.tsx:257)
setGoalHours(text) ==
    /\ goalsPage = "hoursMinutes"
    /\ goalHours' = text
    /\ goalCall' = << >>
    /\ sent' = << >>
    /\ UNCHANGED <<goalsPage, goalMinutes, hoursPerWeek, goalError, goalMessage, goalPending,
                   dbVars, manualVars, storedUser, user, categories, pomVars, setVars, pomCatVars,
                   pomMsgVars, swVars, swCatVars, swMsgVars, requests, obsVars>>

\* setGoalMinutes (Goals.tsx:268)
setGoalMinutes(text) ==
    /\ goalsPage = "hoursMinutes"
    /\ goalMinutes' = text
    /\ goalCall' = << >>
    /\ sent' = << >>
    /\ UNCHANGED <<goalsPage, goalHours, hoursPerWeek, goalError, goalMessage, goalPending,
                   dbVars, manualVars, storedUser, user, categories, pomVars, setVars, pomCatVars,
                   pomMsgVars, swVars, swCatVars, swMsgVars, requests, obsVars>>

\* setHoursPerWeek (Goals.tsx:426)
setHoursPerWeek(text) ==
    /\ goalsPage = "hoursPerWeek"
    /\ hoursPerWeek' = text
    /\ goalCall' = << >>
    /\ sent' = << >>
    /\ UNCHANGED <<goalsPage, goalHours, goalMinutes, goalError, goalMessage, goalPending,
                   dbVars, manualVars, storedUser, user, categories, pomVars, setVars, pomCatVars,
                   pomMsgVars, swVars, swCatVars, swMsgVars, requests, obsVars>>

\* What handleSubmit of the hours/minutes page answers to its fields
\* (Goals.tsx:60-83): an error text, or MsgNone when the goal is sent.
SubmitError(hours, minutes) ==
    IF hours < 0 \/ hours > MaxGoalHours THEN "Hours must be between 0 and 168"
    ELSE IF minutes < 0 \/ minutes > MaxGoalMinutes THEN "Minutes must be between 0 and 59"
    ELSE IF hours = 0 /\ minutes = 0 THEN "Please enter a goal greater than 0"
    ELSE IF hours * SecondsPerHour + minutes * SecondsPerMinute > MaxGoalSeconds THEN "Goal cannot exceed 168 hours per week"
    ELSE MsgNone

\* handleSubmit of the hours/minutes page, up to its await (Goals.tsx:53-89)
handleSubmit ==
    /\ goalsPage = "hoursMinutes"
    /\ goalMessage' = MsgNone
    /\ sent' = << >>
    /\ IF user = NoUser
       THEN /\ goalError' = MsgNone
            /\ goalCall' = << >>
            /\ UNCHANGED goalPending
       ELSE LET hours == parseIntOrZero(goalHours)
                minutes == parseIntOrZero(goalMinutes)
                totalSeconds == hours * SecondsPerHour + minutes * SecondsPerMinute
            IN  /\ goalError' = SubmitError(hours, minutes)
                /\ IF SubmitError(hours, minutes) # MsgNone
                   THEN /\ goalCall' = << >>
                        /\ UNCHANGED goalPending
                   ELSE /\ goalPending < MaxInFlight
                        /\ goalCall' = <<totalSeconds>>
                        /\ goalPending' = goalPending + 1
    /\ UNCHANGED <<goalsPage, goalHours, goalMinutes, hoursPerWeek,
                   dbVars, manualVars, storedUser, user, categories, pomVars, setVars, pomCatVars,
                   pomMsgVars, swVars, swCatVars, swMsgVars, requests, obsVars>>

\* handleSubmit of the hours-per-week page, up to its await (Goals.tsx:350-366)
handleSubmitHoursPerWeek ==
    /\ goalsPage = "hoursPerWeek"
    /\ goalMessage' = MsgNone
    /\ sent' = << >>
    /\ IF user = NoUser
       THEN /\ goalError' = MsgNone
            /\ goalCall' = << >>
            /\ UNCHANGED goalPending
       ELSE LET hours == parseFloat(hoursPerWeek)
            IN  IF isNaN(hours) \/ hours.value <= 0
                THEN /\ goalError' = "Please enter a valid number of hours"
                     /\ goalCall' = << >>
                     /\ UNCHANGED goalPending
                ELSE /\ goalPending < MaxInFlight
                     /\ goalError' = MsgNone
                     /\ goalCall' = <<hoursToSeconds(hours.value)>>
                     /\ goalPending' = goalPending + 1
    /\ UNCHANGED <<goalsPage, goalHours, goalMinutes, hoursPerWeek,
                   dbVars, manualVars, storedUser, user, categories, pomVars, setVars, pomCatVars,
                   pomMsgVars, swVars, swCatVars, swMsgVars, requests, obsVars>>

\* createGoal resolved: the rest of either handleSubmit (Goals.tsx:91-98, :368-371)
CreateGoalResolve ==
    /\ goalPending > 0
    /\ goalPending' = goalPending - 1
    /\ goalMessage' = "Goal set"
    /\ goalHours' = << >>
    /\ goalMinutes' = << >>
    /\ hoursPerWeek' = << >>
    /\ goalCall' = << >>
    /\ sent' = << >>
    /\ UNCHANGED <<goalsPage, goalError, dbVars, manualVars, storedUser, user, categories, pomVars, setVars,
                   pomCatVars, pomMsgVars, swVars, swCatVars, swMsgVars, requests, obsVars>>

\* createGoal rejected (Goals.tsx:99-102, :372-375)
CreateGoalReject ==
    /\ goalPending > 0
    /\ goalPending' = goalPending - 1
    /\ goalError' = "Failed to set goal. Please try again."
    /\ goalCall' = << >>
    /\ sent' = << >>
    /\ UNCHANGED <<goalsPage, goalHours, goalMinutes, hoursPerWeek, goalMessage,
                   dbVars, manualVars, storedUser, user, categories, pomVars, setVars,
                   pomCatVars, pomMsgVars, swVars, swCatVars, swMsgVars, requests, obsVars>>

(* --------------------------- manual time entry ------------------------ *)
\* String.prototype.trim on the texts of the model: the blank text becomes empty
trim(text) == IF text = " " THEN "" ELSE text

\* setManualHours (Timer.tsx:438)
setManualHours(text) ==
    /\ TimerPageShown
    /\ manualHours' = text
    /\ sent' = << >>
    /\ UNCHANGED <<manualMinutes, manualCategory, manualCustomCategory, showManualCustom, manualMessage,
                   manualError, manualPending,
                   goalVars, dbVars, storedUser, user, categories, pomVars, setVars,
                   pomCatVars, pomMsgVars, swVars, swCatVars, swMsgVars, requests, obsVars>>

\* setManualMinutes (Timer.tsx:450)
setManualMinutes(text) ==
    /\ TimerPageShown
    /\ manualMinutes' = text
    /\ sent' = << >>
    /\ UNCHANGED <<manualHours, manualCategory, manualCustomCategory, showManualCustom, manualMessage,
                   manualError, manualPending,
                   goalVars, dbVars, storedUser, user, categories, pomVars, setVars,
                   pomCatVars, pomMsgVars, swVars, swCatVars, swMsgVars, requests, obsVars>>

\* handleManualCategoryChange (Timer.tsx:63-72)
handleManualCategoryChange(value) ==
    /\ TimerPageShown
    /\ IF value = "Custom"
       THEN /\ showManualCustom' = TRUE
            /\ manualCategory' = ""
            /\ UNCHANGED manualCustomCategory
       ELSE /\ showManualCustom' = FALSE
            /\ manualCategory' = value
            /\ manualCustomCategory' = ""
    /\ sent' = << >>
    /\ UNCHANGED <<manualHours, manualMinutes, manualMessage, manualError, manualPending,
                   goalVars, dbVars, storedUser, user, categories, pomVars, setVars,
                   pomCatVars, pomMsgVars, swVars, swCatVars, swMsgVars, requests, obsVars>>

\* setManualCustomCategory (Timer.tsx:421)
setManualCustomCategory(text) ==
    /\ TimerPageShown
    /\ showManualCustom
    /\ manualCustomCategory' = text
    /\ sent' = << >>
    /\ UNCHANGED <<manualHours, manualMinutes, manualCategory, showManualCustom,
                   manualMessage, manualError, manualPending,
                   goalVars, dbVars, storedUser, user, categories, pomVars, setVars,
                   pomCatVars, pomMsgVars, swVars, swCatVars, swMsgVars, requests, obsVars>>

\* Faulty variant: the category is tested without trim().
handleManualSubmitNoTrim ==
    /\ TimerPageShown
    /\ manualMessage' = MsgNone
    /\ LET hours == parseIntOrZero(manualHours)
           minutes == parseIntOrZero(manualMinutes)
           totalSeconds == hours * SecondsPerHour + minutes * SecondsPerMinute
           categoryToUse == IF showManualCustom THEN manualCustomCategory ELSE manualCategory
       IN  IF hours = 0 /\ minutes = 0
           THEN /\ manualError' = "Please enter a time greater than 0"
                /\ sent' = << >>
                /\ UNCHANGED manualPending
           ELSE IF hours < 0 \/ minutes < 0
           THEN /\ manualError' = "Please enter positive values"
                /\ sent' = << >>
                /\ UNCHANGED manualPending
           ELSE IF categoryToUse = ""
           THEN /\ manualError' = "Please select or enter a category"
                /\ sent' = << >>
                /\ UNCHANGED manualPending
           ELSE /\ manualPending < MaxInFlight
                /\ manualError' = MsgNone
                /\ sent' = << [from |-> "manual", userid |-> user,
                               category |-> categoryToUse,
                               focus_time_seconds |-> totalSeconds] >>
                /\ manualPending' = manualPending + 1
    /\ UNCHANGED <<manualHours, manualMinutes, manualCategory, manualCustomCategory,
                   showManualCustom,
                   goalVars, dbVars, storedUser, user, categories, pomVars, setVars,
                   pomCatVars, pomMsgVars, swVars, swCatVars, swMsgVars, requests, obsVars>>

\* handleManualSubmit up to its await (Timer.tsx:74-105); the form is shown to a
\* signed-in user only
handleManualSubmit ==
    /\ TimerPageShown
    /\ manualMessage' = MsgNone
    /\ LET hours == parseIntOrZero(manualHours)
           minutes == parseIntOrZero(manualMinutes)
           totalSeconds == hours * SecondsPerHour + minutes * SecondsPerMinute
           categoryToUse == IF showManualCustom THEN manualCustomCategory ELSE manualCategory
       IN  IF hours = 0 /\ minutes = 0
           THEN /\ manualError' = "Please enter a time greater than 0"
                /\ sent' = << >>
                /\ UNCHANGED manualPending
           ELSE IF hours < 0 \/ minutes < 0
           THEN /\ manualError' = "Please enter positive values"
                /\ sent' = << >>
                /\ UNCHANGED manualPending
           ELSE IF trim(categoryToUse) = ""
           THEN /\ manualError' = "Please select or enter a category"
                /\ sent' = << >>
                /\ UNCHANGED manualPending
           ELSE /\ manualPending < MaxInFlight
                /\ manualError' = MsgNone
                /\ sent' = << [from |-> "manual", userid |-> user,
                               category |-> categoryToUse,
                               focus_time_seconds |-> totalSeconds] >>
                /\ manualPending' = manualPending + 1
    /\ UNCHANGED <<manualHours, manualMinutes, manualCategory, manualCustomCategory,
                   showManualCustom,
                   goalVars, dbVars, storedUser, user, categories, pomVars, setVars,
                   pomCatVars, pomMsgVars, swVars, swCatVars, swMsgVars, requests, obsVars>>

\* createSession of the manual entry resolved (Timer.tsx:107-116)
ManualCreateResolve ==
    /\ manualPending > 0
    /\ manualPending' = manualPending - 1
    /\ manualMessage' = "Logged"
    /\ manualHours' = << >>
    /\ manualMinutes' = << >>
    /\ manualCategory' = ""
    /\ manualCustomCategory' = ""
    /\ showManualCustom' = FALSE
    /\ sent' = << >>
    /\ UNCHANGED <<manualError,
                   goalVars, dbVars, storedUser, user, categories, pomVars, setVars,
                   pomCatVars, pomMsgVars, swVars, swCatVars, swMsgVars, requests, obsVars>>

\* createSession of the manual entry rejected (Timer.tsx:117-120)
ManualCreateReject ==
    /\ manualPending > 0
    /\ manualPending' = manualPending - 1
    /\ manualError' = "Failed to log time. Please try again."
    /\ sent' = << >>
    /\ UNCHANGED <<manualHours, manualMinutes, manualCategory, manualCustomCategory,
                   showManualCustom, manualMessage,
                   goalVars, dbVars, storedUser, user, categories, pomVars, setVars,
                   pomCatVars, pomMsgVars, swVars, swCatVars, swMsgVars, requests, obsVars>>

(* ------------------------------- the store ---------------------------- *)
\* Faulty variant: the key also holds the duration.
SessionKeyWithSeconds(row) == <<row.email, row.time, row.focus_time_seconds>>

\* PRIMARY KEY (email, time) of focus_information (init.sql:22)
SessionKey(row) == <<row.email, row.time>>

\* PRIMARY KEY (email, category) of focus_goal_information and
\* category_information (init.sql:31, :39)
CategoryKey(row) == <<row.email, row.category>>

\* Faulty variant: the delete also takes the rows that share a category name
\* with a row of the deleted user.
CascadeSameNames(table, email) ==
    {row \in table : \A gone \in table : gone.email = email => row.category # gone.category}

\* FOREIGN KEY (email) REFERENCES user_information(email) ON DELETE CASCADE
\* (init.sql:23, :32, :40): what a delete of the user leaves of a table
Cascade(table, email) == {row \in table : row.email # email}

\* A row of user_information is inserted; email is its primary key (init.sql:11-14)
RegisterUser(email) ==
    /\ email \notin user_information
    /\ user_information' = user_information \cup {email}
    /\ outcome' = "none"
    /\ UNCHANGED <<focus_information, focus_goal_information, category_information,
                   transactions, clientVars>>

\* The backend answers createSession: on one of its connections it inserts a
\* row for an existing user, with the time it read from its clock.
BeginCreateSession(w, email, time, seconds, category) ==
    /\ transactions[w] = << >>
    /\ email \in user_information
    /\ transactions' = [transactions EXCEPT ![w] =
           [email |-> email, time |-> time, focus_time_seconds |-> seconds,
            category |-> category]]
    /\ outcome' = "none"
    /\ UNCHANGED <<user_information, focus_information, focus_goal_information,
                   category_information, clientVars>>

\* The INSERT of a connection is decided against the committed rows
\* (init.sql:17-24): the foreign key, then the primary key.
CommitCreateSession(w) ==
    /\ transactions[w] # << >>
    /\ LET row == transactions[w] IN
          IF row.email \notin user_information
          THEN /\ outcome' = "foreign key"
               /\ UNCHANGED focus_information
          ELSE IF \E held \in focus_information : SessionKey(held) = SessionKey(row)
          THEN /\ outcome' = "conflict"
               /\ UNCHANGED focus_information
          ELSE /\ outcome' = "created"
               /\ focus_information' = focus_information \cup {row}
    /\ transactions' = [transactions EXCEPT ![w] = << >>]
    /\ UNCHANGED <<user_information, focus_goal_information, category_information,
                   clientVars>>

\* A goal of an existing user is stored under its key (init.sql:27-33)
PutGoal(email, category, goal) ==
    /\ email \in user_information
    /\ LET row == [email |-> email, category |-> category,
                   goal_time_per_week_seconds |-> goal] IN
          focus_goal_information' =
              {held \in focus_goal_information : CategoryKey(held) # CategoryKey(row)}
                  \cup {row}
    /\ outcome' = "none"
    /\ UNCHANGED <<user_information, focus_information, category_information,
                   transactions, clientVars>>

\* A category of an existing user is stored (init.sql:36-41)
PutCategory(email, category) ==
    /\ email \in user_information
    /\ category_information' =
           category_information \cup {[email |-> email, category |-> category]}
    /\ outcome' = "none"
    /\ UNCHANGED <<user_information, focus_information, focus_goal_information,
                   transactions, clientVars>>

\* DELETE of a row of user_information with its cascades (init.sql:11-41)
DeleteRows(email) ==
    /\ email \in user_information
    /\ user_information' = user_information \ {email}
    /\ focus_information' = Cascade(focus_information, email)
    /\ focus_goal_information' = Cascade(focus_goal_information, email)
    /\ category_information' = Cascade(category_information, email)
    /\ outcome' = "deleted"
    /\ UNCHANGED transactions

\* The account is deleted from elsewhere (another client, the admin tool)
DeleteUser(email) ==
    /\ DeleteRows(email)
    /\ UNCHANGED clientVars

\* handleDeleteAccount (Settings.tsx:86-96) when the user confirms and the
\* delete succeeds: the account is deleted, then logout()
handleDeleteAccount ==
    /\ user # NoUser
    /\ DeleteRows(user)
    /\ user' = NoUser
    /\ storedUser' = NoUser
    /\ failedDuration' = NoDuration
    /\ sent' = << >>
    /\ UNCHANGED <<categories, pomVars, setVars, pomCatVars, pomMsgVars, swVars,
                   swCatVars, swMsgVars, requests, workTicks, savedInRun, sentInRun, runUser, goalVars, manualVars>>

\* Faulty variant: the sessions logged under the category go with it.
DeleteCategoryRowsAndSessions(email, category) ==
    /\ [email |-> email, category |-> category] \in category_information
    /\ category_information' =
           category_information \ {[email |-> email, category |-> category]}
    /\ focus_information' =
           {row \in focus_information : ~(row.email = email /\ row.category = category)}
    /\ outcome' = "category deleted"
    /\ UNCHANGED <<user_information, focus_goal_information, transactions>>

\* DELETE of a row of category_information (init.sql:36-41); no other table
\* refers to it (init.sql:17-33)
DeleteCategoryRows(email, category) ==
    /\ [email |-> email, category |-> category] \in category_information
    /\ category_information' =
           category_information \ {[email |-> email, category |-> category]}
    /\ outcome' = "category deleted"
    /\ UNCHANGED <<user_information, focus_information, focus_goal_information,
                   transactions>>

\* handleDeleteCategory (Goals.tsx:147-160) when the user confirms and the delete
\* succeeds: the category is deleted, then reloadPomodoroCategories()
handleDeleteCategory(category) ==
    /\ user # NoUser
    /\ InFlight < MaxInFlight
    /\ DeleteCategoryRows(user, category)
    /\ requests' = Issue(requests, LoadRequest(user))
    /\ sent' = << >>
    /\ UNCHANGED <<user, categories, pomVars, setVars, pomCatVars, pomMsgVars,
                   swVars, swCatVars, swMsgVars, obsVars, goalVars, storedUser, manualVars>>

\* getSessions of a user: the rows the store lists for the email
getSessions(email) == {row \in focus_information : row.email = email}

(* ---------------------- controls of the Timer page -------------------- *)
\* Options of a category select (Timer.tsx:184-189, :326-331)
CategoryOptions == {categories[k] : k \in DOMAIN categories} \cup {"Custom"}

\* disabled={pomodoroRunning || pomodoroSeconds > 0} (Timer.tsx:182, :203, :223, :241, :259)
PomodoroInputsEnabled == TimerPageShown /\ ~pomodoroRunning /\ ~(pomodoroSeconds > 0)

\* The run a start would begin stays inside the bounds of the model, with room for
\* the request of its final save.
RunWithinBounds ==
    /\ InFlight <= MaxInFlight
    /\ getWorkDuration <= MaxWork
    /\ getBreakDuration <= MaxBreak
    /\ getCycles <= MaxCycles

\* Timer.tsx:268-275
ClickPomodoroStart ==
    /\ TimerPageShown
    /\ pomodoroSeconds = 0
    /\ ~(stopwatchRunning \/ stopwatchSeconds > 0)
    /\ RunWithinBounds
    /\ handlePomodoroStart

\* Timer.tsx:278-281
ClickPomodoroResume ==
    /\ TimerPageShown
    /\ pomodoroSeconds # 0 /\ ~pomodoroRunning
    /\ handlePomodoroResume

\* Timer.tsx:282-286
ClickPomodoroPause ==
    /\ TimerPageShown
    /\ pomodoroSeconds # 0 /\ pomodoroRunning
    /\ handlePomodoroPause

\* Timer.tsx:287-289
PomodoroSaveOffered == TimerPageShown /\ pomodoroSeconds # 0

ClickPomodoroSave ==
    /\ PomodoroSaveOffered
    /\ InFlight < MaxInFlight
    /\ handlePomodoroSave

\* Timer.tsx:290-292
ClickPomodoroReset ==
    /\ TimerPageShown
    /\ pomodoroSeconds # 0
    /\ handlePomodoroReset

\* Timer.tsx:177-190
SelectPomodoroCategory ==
    /\ PomodoroInputsEnabled
    /\ \E value \in CategoryOptions : handlePomodoroCategoryChange(value)

\* Timer.tsx:193-206
TypePomodoroCustomCategory ==
    /\ PomodoroInputsEnabled
    /\ showPomodoroCustom
    /\ \E text \in CustomNames : setPomodoroCustomCategory(text)

\* Timer.tsx:216-221: the field accepts '' or a positive integer
TypeWorkDuration ==
    /\ PomodoroInputsEnabled
    /\ \E v \in (1..MaxWork) \cup {Empty} : setWorkDuration(v)

\* Timer.tsx:234-239 (the emptied field is exercised on the work duration)
TypeBreakDuration ==
    /\ PomodoroInputsEnabled
    /\ \E v \in 1..MaxBreak : setBreakDuration(v)

\* Timer.tsx:252-257
TypeCycles ==
    /\ PomodoroInputsEnabled
    /\ \E v \in 1..MaxCycles : setCycles(v)

\* Faulty variant: the button is not disabled while the Pomodoro is active.
ClickStopwatchStartUnguarded ==
    /\ TimerPageShown
    /\ ~stopwatchRunning
    /\ handleStopwatchStart

\* Timer.tsx:359-367
ClickStopwatchStart ==
    /\ TimerPageShown
    /\ ~stopwatchRunning
    /\ ~(pomodoroRunning \/ pomodoroSeconds > 0)
    /\ handleStopwatchStart

\* Timer.tsx:379-383
ClickStopwatchPause ==
    /\ TimerPageShown
    /\ stopwatchRunning
    /\ handleStopwatchPause

\* Timer.tsx:368-372
StopwatchSaveOffered == TimerPageShown /\ ~stopwatchRunning /\ stopwatchSeconds > 0

ClickStopwatchSave ==
    /\ StopwatchSaveOffered
    /\ InFlight < MaxInFlight
    /\ handleStopwatchSave

\* Timer.tsx:373-375
ClickStopwatchReset ==
    /\ TimerPageShown
    /\ ~stopwatchRunning /\ stopwatchSeconds > 0
    /\ handleStopwatchReset

\* Timer.tsx:319-332
SelectStopwatchCategory ==
    /\ TimerPageShown
    /\ ~stopwatchRunning
    /\ \E value \in CategoryOptions : handleStopwatchCategoryChange(value)

\* Timer.tsx:335-348
TypeStopwatchCustomCategory ==
    /\ TimerPageShown
    /\ ~stopwatchRunning
    /\ showStopwatchCustom
    /\ \E text \in CustomNames : setStopwatchCustomCategory(text)

(* ------------------------------ behaviour ----------------------------- *)
RequestSettles ==
    /\ ~EffectPending
    /\ \E r \in BagToSet(requests) :
          \/ CreateSessionResolve(r)
          \/ CreateSessionReject(r)
          \/ \E data \in ServerLists : GetCategoriesResolve(r, data)
          \/ GetCategoriesReject(r)

Identity ==
    /\ ~EffectPending
    /\ \/ \E u \in Users : Login(u)
       \/ Logout
       \/ reloadCategories

Next ==
    \/ PomodoroTick
    \/ handlePomodoroComplete
    \/ ClickPomodoroStart
    \/ ClickPomodoroResume
    \/ ClickPomodoroPause
    \/ ClickPomodoroSave
    \/ ClickPomodoroReset
    \/ SelectPomodoroCategory
    \/ TypePomodoroCustomCategory
    \/ TypeWorkDuration
    \/ TypeBreakDuration
    \/ TypeCycles
    \/ (~EffectPending /\ StopwatchTick)
    \/ ClickStopwatchStart
    \/ ClickStopwatchPause
    \/ ClickStopwatchSave
    \/ ClickStopwatchReset
    \/ SelectStopwatchCategory
    \/ TypeStopwatchCustomCategory
    \/ RequestSettles
    \/ Identity

Spec == Init /\ [][Next]_vars

\* The Pomodoro card alone.  The stopwatch reaches the Pomodoro only through the Start
\* button it disables and through loadCategories, which Login and reloadCategories
\* also run.
NextPomodoro ==
    \/ PomodoroTick
    \/ handlePomodoroComplete
    \/ ClickPomodoroStart
    \/ ClickPomodoroResume
    \/ ClickPomodoroPause
    \/ ClickPomodoroSave
    \/ ClickPomodoroReset
    \/ SelectPomodoroCategory
    \/ TypePomodoroCustomCategory
    \/ TypeWorkDuration
    \/ TypeBreakDuration
    \/ TypeCycles
    \/ RequestSettles
    \/ Identity

SpecPomodoro == Init /\ [][NextPomodoro]_vars

\* Both cards of the Timer page, the Pomodoro saved before its first tick.
NextBoth ==
    \/ ClickPomodoroStart
    \/ ClickPomodoroSave
    \/ ClickPomodoroReset
    \/ SelectPomodoroCategory
    \/ TypePomodoroCustomCategory
    \/ TypeWorkDuration
    \/ TypeBreakDuration
    \/ TypeCycles
    \/ StopwatchTick
    \/ ClickStopwatchStart
    \/ ClickStopwatchPause
    \/ ClickStopwatchSave
    \/ ClickStopwatchReset
    \/ SelectStopwatchCategory
    \/ TypeStopwatchCustomCategory
    \/ RequestSettles
    \/ \E u \in Users : Login(u)

SpecBoth == Init /\ [][NextBoth]_vars

\* The stopwatch handlers of the context called by any consumer of usePomodoro(),
\* without the conditions under which the Timer page renders its buttons.
CallStopwatchSave ==
    /\ InFlight < MaxInFlight
    /\ handleStopwatchSave

CallStopwatchCategoryChange ==
    \E value \in CategoryOptions : handleStopwatchCategoryChange(value)

CallSetStopwatchCustomCategory ==
    \E text \in CustomNames : setStopwatchCustomCategory(text)

NextContext ==
    \/ StopwatchTick
    \/ handleStopwatchStart
    \/ handleStopwatchPause
    \/ handleStopwatchReset
    \/ CallStopwatchSave
    \/ CallStopwatchCategoryChange
    \/ CallSetStopwatchCustomCategory
    \/ RequestSettles
    \/ Identity

SpecContext == Init /\ [][NextContext]_vars

\* Both timers of the Timer page with every button and both tick sources, each card
\* saving under the category loadCategories selects.
NextTimers ==
    \/ PomodoroTick
    \/ handlePomodoroComplete
    \/ ClickPomodoroStart
    \/ ClickPomodoroResume
    \/ ClickPomodoroPause
    \/ ClickPomodoroSave
    \/ ClickPomodoroReset
    \/ TypeWorkDuration
    \/ TypeBreakDuration
    \/ TypeCycles
    \/ (~EffectPending /\ StopwatchTick)
    \/ ClickStopwatchStart
    \/ ClickStopwatchPause
    \/ ClickStopwatchSave
    \/ ClickStopwatchReset
    \/ RequestSettles
    \/ \E u \in Users : Login(u)

SpecTimers == Init /\ [][NextTimers]_vars

\* The Timer page together with a consumer of usePomodoro() that calls
\* handleStopwatchReset directly: the page itself renders the stopwatch's Reset button
\* only while the stopwatch is paused (Timer.tsx:368-376).
CallStopwatchReset ==
    /\ ~EffectPending
    /\ handleStopwatchReset

NextResets ==
    \/ NextTimers
    \/ CallStopwatchReset

SpecResets == Init /\ [][NextResets]_vars

\* The Goals pages on their own: the fields are typed, the form submitted, the
\* answers of createGoal arrive, the user logs in and out.
NextGoals ==
    \/ \E page \in GoalsPages : OpenGoals(page)
    \/ \E text \in GoalHoursInputs : setGoalHours(text)
    \/ \E text \in GoalMinutesInputs : setGoalMinutes(text)
    \/ \E text \in HoursPerWeekInputs : setHoursPerWeek(text)
    \/ handleSubmit
    \/ handleSubmitHoursPerWeek
    \/ CreateGoalResolve
    \/ CreateGoalReject
    \/ \E u \in Users : Login(u)
    \/ Logout

SpecGoals == Init /\ [][NextGoals]_vars

\* The sessions table under concurrent creates: accounts come and go, each
\* connection inserts and commits.
NextSessions ==
    \/ \E email \in Emails : RegisterUser(email)
    \/ \E email \in Emails : DeleteUser(email)
    \/ \E w \in Workers, email \in Emails, time \in 1..MaxTime, seconds \in StoreDurations,
          category \in StoreCategories : BeginCreateSession(w, email, time, seconds, category)
    \/ \E w \in Workers : CommitCreateSession(w)

SpecSessions == Init /\ [][NextSessions]_vars

\* The accounts and their rows: sessions are created on one connection, goals
\* and categories stored, accounts deleted from this client or from elsewhere.
NextAccounts ==
    \/ \E email \in Emails : RegisterUser(email)
    \/ \E email \in Emails : DeleteUser(email)
    \/ handleDeleteAccount
    \/ \E u \in Users : Login(u)
    \/ \E email \in Emails, time \in 1..MaxTime, seconds \in StoreDurations,
          category \in StoreCategories : BeginCreateSession("w1", email, time, seconds, category)
    \/ \E w \in Workers : CommitCreateSession(w)
    \/ \E email \in Emails, category \in StoreCategories : PutGoal(email, category, SecondsPerHour)
    \/ \E email \in Emails, category \in StoreCategories : PutCategory(email, category)

SpecAccounts == Init /\ [][NextAccounts]_vars

\* The accounts and their rows with the categories deleted on the Goals page;
\* the category loads are answered.
NextCategories ==
    \/ NextAccounts
    \/ \E category \in StoreCategories : handleDeleteCategory(category)
    \/ RequestSettles

SpecCategories == Init /\ [][NextCategories]_vars

\* The Pomodoro of one browser used by two accounts in turn: the users sign in
\* and out, the page is reloaded, the timer runs and is saved.
NextSession ==
    \/ PomodoroTick
    \/ handlePomodoroComplete
    \/ ClickPomodoroStart
    \/ ClickPomodoroResume
    \/ ClickPomodoroPause
    \/ ClickPomodoroSave
    \/ ClickPomodoroReset
    \/ TypeWorkDuration
    \/ TypeBreakDuration
    \/ TypeCycles
    \/ RequestSettles
    \/ (~EffectPending /\ \E u \in Emails : Login(u))
    \/ (~EffectPending /\ Logout)
    \/ Reload

SpecSession == Init /\ [][NextSession]_vars

\* The manual entry of the Timer page: the fields are typed around the values
\* handleManualSubmit tests, the form is submitted, createSession answers.
NextManual ==
    \/ \E text \in {<< >>, <<-1>>, <<0>>, <<1>>} : setManualHours(text)
    \/ \E text \in {<< >>, <<-1>>, <<0>>, <<1>>} : setManualMinutes(text)
    \/ \E value \in CategoryOptions \cup {""} : handleManualCategoryChange(value)
    \/ \E text \in CustomNames \cup {" "} : setManualCustomCategory(text)
    \/ handleManualSubmit
    \/ ManualCreateResolve
    \/ ManualCreateReject
    \/ RequestSettles
    \/ \E u \in Users : Login(u)

SpecManual == Init /\ [][NextManual]_vars

\* A Pomodoro that is started and left alone: it is never paused, reset or saved by
\* hand. The interval fires as long as the timer runs with seconds left and the
\* completion effect runs with the render that reaches 0 (Layout.tsx:160-190).
NextRun ==
    \/ PomodoroTick
    \/ handlePomodoroComplete
    \/ ClickPomodoroStart
    \/ TypeWorkDuration
    \/ TypeBreakDuration
    \/ TypeCycles
    \/ RequestSettles
    \/ \E u \in Users : Login(u)

SpecRun ==
    /\ Init
    /\ [][NextRun]_vars
    /\ WF_vars(PomodoroTick)
    /\ WF_vars(handlePomodoroComplete)

(* ------------------------------ properties ---------------------------- *)
\* C1: every createSession call of a Pomodoro save carries totalWorkTime plus, when the
\* segment under way is a work segment, workDuration*60 - pomodoroSeconds, and plus 0
\* when it is a break, all taken from the state the save was invoked in.
C1_SaveDuration ==
    [][(sent' # << >> /\ sent'[1].from = "pomodoro") =>
          sent'[1].focus_time_seconds =
              totalWorkTime +
              (IF isBreak THEN 0
               ELSE (IF workDuration = Empty THEN DefaultWork ELSE workDuration)
                        * SecondsPerMinute - pomodoroSeconds)]_vars

\* A save 10 ticks into the second work segment of a 1-minute Pomodoro sends 70 seconds.
C1_Witness ==
    /\ sent # << >> /\ sent[1].from = "pomodoro"
    /\ ~isBreak /\ currentCycle = 2 /\ pomodoroSeconds = 50
    /\ sent[1].focus_time_seconds = 70

\* C2: the duration a Pomodoro save sends equals the number of ticks processed while
\* isBreak = false since the last start; ticks of break segments never count.
C2_OnlyWorkTicks ==
    [][(sent' # << >> /\ sent'[1].from = "pomodoro") =>
          sent'[1].focus_time_seconds = workTicks]_vars

\* A save in the middle of a break, after break ticks were processed, sends the 60 work ticks.
C2_Witness ==
    /\ sent # << >> /\ sent[1].from = "pomodoro"
    /\ isBreak /\ pomodoroSeconds > 0
    /\ pomodoroSeconds < getBreakDuration * SecondsPerMinute
    /\ sent[1].focus_time_seconds = 60
    /\ workTicks = 60

\* C3: when the countdown of the last work segment reaches zero in a run without a manual
\* save, the completion sets totalWorkTime to cycles*workDuration*60 and issues exactly
\* one createSession, carrying cycles*workDuration*60 seconds (no break time), for the
\* logged-in user and selected category; it never issues more than one.
C3_NaturalCompletion ==
    [][(pomodoroRunning /\ pomodoroSeconds = 0 /\ ~isBreak /\ ~savedInRun
         /\ currentCycle >= (IF cycles = Empty THEN DefaultCycles ELSE cycles)) =>
          LET N == IF cycles = Empty THEN DefaultCycles ELSE cycles
              W == IF workDuration = Empty THEN DefaultWork ELSE workDuration
          IN /\ totalWorkTime' = N * W * SecondsPerMinute
             /\ Len(sent') <= 1
             /\ (user # NoUser /\ PomodoroSelectedCategory # "") =>
                   /\ Len(sent') = 1
                   /\ sent'[1].from = "pomodoro"
                   /\ sent'[1].focus_time_seconds = N * W * SecondsPerMinute]_vars

\* A 2-cycle, 1-minute run completed: one call with 120 seconds, the break left out.
C3_Witness ==
    /\ sent # << >> /\ sent[1].from = "pomodoro"
    /\ ~pomodoroRunning /\ pomodoroSeconds = 0
    /\ cycles = 2 /\ currentCycle = 2 /\ workDuration = 1 /\ breakDuration = 1
    /\ totalWorkTime = 120
    /\ sent[1].focus_time_seconds = 120
    /\ workTicks = 120

\* C4: when the countdown reaches 0 in a work segment, workDuration*60 is added to
\* totalWorkTime; with currentCycle < cycles the timer enters the break (isBreak, elapsed
\* = breakDuration*60, currentCycle unchanged, still running), otherwise the save runs:
\* the timer stops and the session is sent when a user and a category are present.
C4_WorkSegmentDone ==
    [][(pomodoroRunning /\ pomodoroSeconds = 0 /\ ~isBreak) =>
          LET N == IF cycles = Empty THEN DefaultCycles ELSE cycles
              W == IF workDuration = Empty THEN DefaultWork ELSE workDuration
              B == IF breakDuration = Empty THEN DefaultBreak ELSE breakDuration
          IN /\ totalWorkTime' = totalWorkTime + W * SecondsPerMinute
             /\ IF currentCycle < N
                  THEN /\ isBreak'
                       /\ pomodoroSeconds' = B * SecondsPerMinute
                       /\ currentCycle' = currentCycle
                       /\ pomodoroRunning'
                       /\ sent' = << >>
                  ELSE /\ ~pomodoroRunning'
                       /\ savedInRun'
                       /\ (user # NoUser /\ PomodoroSelectedCategory # "") => Len(sent') = 1]_vars

\* The first work segment of a 2-cycle run has just turned into the break.
C4_Witness ==
    /\ isBreak /\ pomodoroRunning
    /\ pomodoroSeconds = getBreakDuration * SecondsPerMinute
    /\ currentCycle = 1 /\ cycles = 2
    /\ totalWorkTime = 60

\* C5: when the countdown reaches 0 in a break segment with currentCycle < cycles,
\* currentCycle grows by 1, isBreak becomes false, elapsed becomes workDuration*60 and
\* totalWorkTime is unchanged; otherwise the save runs and the timer stops.
C5_BreakSegmentDone ==
    [][(pomodoroRunning /\ pomodoroSeconds = 0 /\ isBreak) =>
          LET N == IF cycles = Empty THEN DefaultCycles ELSE cycles
              W == IF workDuration = Empty THEN DefaultWork ELSE workDuration
          IN IF currentCycle < N
               THEN /\ currentCycle' = currentCycle + 1
                    /\ ~isBreak'
                    /\ pomodoroSeconds' = W * SecondsPerMinute
                    /\ totalWorkTime' = totalWorkTime
                    /\ pomodoroRunning'
                    /\ sent' = << >>
               ELSE /\ ~pomodoroRunning'
                    /\ savedInRun']_vars

\* The break of cycle 1 has just turned into the work segment of cycle 2.
C5_Witness ==
    /\ ~isBreak /\ pomodoroRunning
    /\ currentCycle = 2
    /\ pomodoroSeconds = getWorkDuration * SecondsPerMinute
    /\ totalWorkTime = 60
    /\ workTicks = 60

\* C6: a Pomodoro save with 0 seconds of accumulated work does not call createSession:
\* no call of a Pomodoro save carries a duration of 0.
C6_NoZeroPomodoroSave ==
    (sent # << >> /\ sent[1].from = "pomodoro") => sent[1].focus_time_seconds >= 1

\* C7: a stopwatch save invoked while stopwatchSeconds = 0 sets the error 'Timer must run
\* for at least 1 second' and calls createSession for no selected category.
C7_StopwatchNeedsOneSecond ==
    [][(stopwatchSeconds = 0 /\ handleStopwatchSave) =>
          /\ stopwatchError' = ErrMinTime
          /\ sent' = << >>
          /\ requests' = requests]_vars

\* The error is shown at 0 seconds with a user logged in and the category Work selected.
C7_Witness ==
    /\ stopwatchError = ErrMinTime
    /\ stopwatchSeconds = 0 /\ ~stopwatchRunning
    /\ user # NoUser
    /\ ~showStopwatchCustom /\ stopwatchCategory = "Work"
    /\ sent = << >>

\* C8: when createSession rejects and the timer was not touched since the save was
\* invoked, the timer is in the state it had immediately before the save (same running
\* flag, elapsed seconds, cycle, segment and total) and an error is shown.
C8_FailureKeepsPreSaveState ==
    [][\A r \in BagToSet(requests) :
          (r.op = "pomodoro" /\ r.clean /\ CreateSessionReject(r)) =>
              /\ pomodoroRunning' = r.wasRunning
              /\ pomodoroSeconds' = pomodoroSeconds
              /\ currentCycle' = currentCycle
              /\ isBreak' = isBreak
              /\ totalWorkTime' = totalWorkTime
              /\ pomodoroError' # MsgNone]_vars

\* C9: after a failed Pomodoro save, the automatic one included, and no timer change
\* since, Save is offered and would send the duration of the failed attempt.
C9_RetryAfterFailure ==
    failedDuration # NoDuration =>
        /\ PomodoroSaveOffered
        /\ finalWorkTime = failedDuration[1]

\* C10: a save made from the Timer page with Custom selected and no custom name sets the
\* error 'Please select or enter a category' and calls createSession not at all; every
\* call issued while Custom is selected carries the typed custom name, never the
\* category selected before or the first existing one.
C10_CustomNeedsName ==
    [][/\ (ClickPomodoroSave /\ showPomodoroCustom /\ pomodoroCustomCategory = "") =>
             /\ pomodoroError' = ErrCategory
             /\ sent' = << >>
             /\ InFlight' = InFlight
       /\ (ClickStopwatchSave /\ showStopwatchCustom /\ stopwatchCustomCategory = "") =>
             /\ stopwatchError' = ErrCategory
             /\ sent' = << >>
             /\ InFlight' = InFlight
       /\ (sent' # << >> /\ sent'[1].from = "pomodoro" /\ showPomodoroCustom) =>
             /\ sent'[1].category = pomodoroCustomCategory
             /\ sent'[1].category # ""
       /\ (sent' # << >> /\ sent'[1].from = "stopwatch" /\ showStopwatchCustom) =>
             /\ sent'[1].category = stopwatchCustomCategory
             /\ sent'[1].category # ""]_vars

\* Save & Quit with Custom selected, no name typed and Work as the first category: the
\* error is shown and nothing was sent.
C10_Witness ==
    /\ showPomodoroCustom /\ pomodoroCustomCategory = ""
    /\ pomodoroCategory = "Work" /\ categories # << >>
    /\ pomodoroSeconds > 0 /\ ~pomodoroRunning
    /\ pomodoroError = ErrCategory
    /\ sent = << >> /\ InFlight = 0

\* C11: on the Timer page at most one timer is active: the Pomodoro is never running or
\* holding pomodoroSeconds > 0 while the stopwatch is running or holds
\* stopwatchSeconds > 0, so no tick of one timer falls into a run of the other.
C11_SingleActiveTimer ==
    ~((pomodoroRunning \/ pomodoroSeconds > 0) /\ (stopwatchRunning \/ stopwatchSeconds > 0))

\* A Pomodoro under way after a stopwatch session was saved in the same sitting.
C11_Witness ==
    /\ pomodoroRunning /\ pomodoroSeconds > 0
    /\ stopwatchMessage = MsgStopwatchSaved
    /\ ~stopwatchRunning /\ stopwatchSeconds = 0

C13_TickIsOneSecond ==
    [][/\ (stopwatchSeconds' > stopwatchSeconds
              => stopwatchRunning /\ stopwatchSeconds' = stopwatchSeconds + 1)
       /\ ((pomodoroSeconds' < pomodoroSeconds /\ pomodoroRunning')
              => pomodoroRunning /\ pomodoroSeconds' = pomodoroSeconds - 1)
       /\ pomodoroSeconds' >= 0
       /\ ((pomodoroSeconds' > 0 /\ ~isBreak')
              => workTicks' = totalWorkTime'
                                + (IF workDuration' = Empty THEN DefaultWork
                                   ELSE workDuration') * SecondsPerMinute
                                - pomodoroSeconds')]_vars

\* After a stopwatch session was counted and saved, the Pomodoro has counted its second
\* work segment down to its last second.
C13_Witness ==
    /\ stopwatchMessage = MsgStopwatchSaved
    /\ pomodoroRunning /\ ~isBreak /\ currentCycle > 1
    /\ pomodoroSeconds = 1

C15_ResetDiscards ==
    [][/\ ClickPomodoroReset
            => /\ ~pomodoroRunning' /\ pomodoroSeconds' = 0
               /\ currentCycle' = 1 /\ ~isBreak' /\ totalWorkTime' = 0
               /\ sent' = << >>
               /\ BagCardinality(requests') = BagCardinality(requests)
       /\ (ClickStopwatchReset \/ CallStopwatchReset)
            => /\ ~stopwatchRunning' /\ stopwatchSeconds' = 0
               /\ sent' = << >>
               /\ BagCardinality(requests') = BagCardinality(requests)]_vars

\* The Pomodoro back in Idle by its Reset button after a save that failed: no completion
\* message, the error still shown, nothing in flight.
C15_Witness ==
    /\ ~pomodoroRunning /\ pomodoroSeconds = 0
    /\ currentCycle = 1 /\ ~isBreak /\ totalWorkTime = 0
    /\ pomodoroMessage = MsgNone
    /\ pomodoroError = ErrSaveFailed
    /\ requests = EmptyBag

\* C16: a stopwatch save that passes its checks issues exactly one createSession call,
\* carrying the seconds the stopwatch counted, and when that call succeeds the stopwatch
\* is Idle: not running, stopwatchSeconds = 0.
C16_StopwatchSaveEndsIdle ==
    [][/\ (ClickStopwatchSave /\ stopwatchCategory # "")
            => /\ Len(sent') = 1
               /\ sent'[1].focus_time_seconds = stopwatchSeconds
       /\ (\E r \in BagToSet(requests) : r.op = "stopwatch" /\ CreateSessionResolve(r))
            => ~stopwatchRunning' /\ stopwatchSeconds' = 0]_vars

\* C17: the inputs are locked during a run, so what was chosen before the start stays.
\* From the start of a Pomodoro until it is Idle again (while it runs or holds
\* pomodoroSeconds > 0) its three settings, its Custom choice and custom name do not
\* change and a category selected in its select (not empty) stays selected; while the
\* stopwatch runs its Custom choice and custom name do not change and a category
\* selected in its select stays selected.
C17_ChoiceKeptDuringRun ==
    [][/\ ((pomodoroRunning \/ pomodoroSeconds > 0)
              /\ (pomodoroRunning' \/ pomodoroSeconds' > 0))
            => /\ UNCHANGED <<workDuration, breakDuration, cycles,
                              pomodoroCustomCategory, showPomodoroCustom>>
               /\ pomodoroCategory # "" => pomodoroCategory' = pomodoroCategory
       /\ (stopwatchRunning /\ stopwatchRunning')
            => /\ UNCHANGED <<stopwatchCustomCategory, showStopwatchCustom>>
               /\ stopwatchCategory # "" => stopwatchCategory' = stopwatchCategory]_vars

\* C18: the Goals form calls createGoal only with 0 < goal_time_per_week_seconds <= 604800;
\* a submit by a signed-in user whose fields give a goal outside that range sets an
\* error and makes no createGoal call.
GoalInRange(g) == 0 < g /\ g <= MaxGoalSeconds

C18_GoalWithinWeek ==
    [][/\ goalCall' # << >> => GoalInRange(goalCall'[1])
       /\ (/\ handleSubmit
           /\ user # NoUser
           /\ ~GoalInRange(parseIntOrZero(goalHours) * SecondsPerHour
                           + parseIntOrZero(goalMinutes) * SecondsPerMinute))
            => goalError' # MsgNone /\ goalCall' = << >>
       /\ (/\ handleSubmitHoursPerWeek
           /\ user # NoUser
           /\ ~isNaN(parseFloat(hoursPerWeek))
           /\ ~GoalInRange(hoursToSeconds(parseFloat(hoursPerWeek).value)))
            => goalError' # MsgNone /\ goalCall' = << >>]_vars

\* C19: no two rows of focus_information have the same owner and timestamp, whatever
\* creates were made and however they overlapped; a create whose (owner, timestamp)
\* is already stored is answered with a conflict and leaves the table as it was.
C19_OneSessionPerTimestamp ==
    /\ [](\A r1, r2 \in focus_information :
              (r1.email = r2.email /\ r1.time = r2.time) => r1 = r2)
    /\ [][\A w \in Workers :
            (/\ CommitCreateSession(w)
             /\ \E held \in focus_information :
                    held.email = transactions[w].email /\ held.time = transactions[w].time)
              => outcome' = "conflict" /\ focus_information' = focus_information]_vars

\* A create was just rejected as a conflict while another connection still holds
\* a create for a stored (owner, timestamp) with other contents.
C19_Witness ==
    /\ outcome = "conflict"
    /\ \E w \in Workers :
          /\ transactions[w] # << >>
          /\ \E held \in focus_information :
                /\ held.email = transactions[w].email
                /\ held.time = transactions[w].time
                /\ held # transactions[w]

\* C20: a step that deletes a user leaves no FocusSession, FocusGoal or Category row of
\* that user and leaves the rows of every other user exactly as they were, also when
\* the users have categories of the same name.
C20_DeleteCascadesAndIsolates ==
    [][\A email \in Emails :
          (email \in user_information /\ email \notin user_information')
            => /\ focus_information' = {row \in focus_information : row.email # email}
               /\ focus_goal_information' = {row \in focus_goal_information : row.email # email}
               /\ category_information' = {row \in category_information : row.email # email}
               /\ user_information' = user_information \ {email}]_vars

\* An account was just deleted and the other account still has a session, a goal
\* and a category, under a category name every account uses.
C20_Witness ==
    /\ outcome = "deleted"
    /\ \E email \in user_information :
          /\ \E row \in focus_information : row.email = email
          /\ \E row \in focus_goal_information : row.email = email
          /\ \E row \in category_information : row.email = email

\* C21: deleting a category leaves every row of focus_information as it was, the
\* rows logged under that category included; the sessions listed for the user
\* after the deletion are the ones listed before.
C21_HistoryKept ==
    [][\A category \in StoreCategories :
          handleDeleteCategory(category)
            => /\ focus_information' = focus_information
               /\ getSessions(user)' = getSessions(user)]_vars

\* A category was just deleted and a session of the same user logged under it is
\* still stored.
C21_Witness ==
    /\ outcome = "category deleted"
    /\ \E row \in focus_information :
          /\ row.email = user
          /\ [email |-> row.email, category |-> row.category] \notin category_information

ManualInputValid ==
    /\ parseIntOrZero(manualHours) >= 0
    /\ parseIntOrZero(manualMinutes) >= 0
    /\ parseIntOrZero(manualHours) * SecondsPerHour
         + parseIntOrZero(manualMinutes) * SecondsPerMinute > 0
    /\ trim(IF showManualCustom THEN manualCustomCategory ELSE manualCategory) # ""

C23_ManualEntryValidated ==
    [][/\ handleManualSubmit
            => /\ sent' # << >> => ManualInputValid
               /\ ~ManualInputValid => manualError' # MsgNone /\ sent' = << >>
       /\ ManualCreateReject
            => /\ manualError' # MsgNone
               /\ UNCHANGED <<manualHours, manualMinutes, manualCategory,
                              manualCustomCategory, showManualCustom>>]_vars

\* A call of the manual entry failed and the form still holds one hour under a
\* custom category.
C23_Witness ==
    /\ manualError = "Failed to log time. Please try again."
    /\ manualHours = <<1>>
    /\ showManualCustom
    /\ manualCustomCategory = "Deep"

\* C24: one run of the Pomodoro stores at most one session: from its start to its
\* return to Idle no save calls createSession while an earlier call of the same run
\* is unanswered or has succeeded (a call after a failed one is a retry).
C24_OneCallPerRun ==
    [][(sent' # << >> /\ sent'[1].from = "pomodoro") => ~sentInRun]_vars

\* C25: every session a Pomodoro save sends is sent for the user who was signed in
\* when the run was started.
C25_SavedForStartingUser ==
    [][(sent' # << >> /\ sent'[1].from = "pomodoro") => sent'[1].userid = runUser]_vars

\* C26: while a Pomodoro run is in progress (running, or paused with seconds left)
\* totalWorkTime is workDuration*60*(currentCycle - 1) in a work segment and
\* workDuration*60*currentCycle in a break.
C26_TotalMatchesCycle ==
    (pomodoroRunning \/ pomodoroSeconds > 0)
        => totalWorkTime = getWorkDuration * SecondsPerMinute
                             * (IF isBreak THEN currentCycle ELSE currentCycle - 1)

\* The second work segment is running with the first one counted.
C26_Witness ==
    /\ pomodoroRunning
    /\ ~isBreak
    /\ currentCycle = 2
    /\ pomodoroSeconds > 0
    /\ totalWorkTime = SecondsPerMinute

\* C27: always 1 <= currentCycle <= the number of cycles and
\* 0 <= pomodoroSeconds <= max(workDuration, breakDuration)*60; a break is entered
\* only when currentCycle is below the number of cycles.
C27_CycleAndSecondsInRange ==
    /\ [](/\ 1 <= currentCycle
          /\ currentCycle <= getCycles
          /\ 0 <= pomodoroSeconds
          /\ pomodoroSeconds <= SecondsPerMinute
                 * (IF getWorkDuration >= getBreakDuration THEN getWorkDuration
                                                           ELSE getBreakDuration))
    /\ [][(~isBreak /\ isBreak') => currentCycle < getCycles]_vars

\* C27, restricted: the range of currentCycle holds while a run is in progress
\* (running, or paused with seconds left); the range of pomodoroSeconds and the
\* condition of a break hold always.
C27_InRangeDuringRun ==
    /\ []((pomodoroRunning \/ pomodoroSeconds > 0)
              => (1 <= currentCycle /\ currentCycle <= getCycles))
    /\ [](/\ 1 <= currentCycle
          /\ 0 <= pomodoroSeconds
          /\ pomodoroSeconds <= SecondsPerMinute
                 * (IF getWorkDuration >= getBreakDuration THEN getWorkDuration
                                                           ELSE getBreakDuration))
    /\ [][(~isBreak /\ isBreak') => currentCycle < getCycles]_vars

\* The break of the first of two cycles is under way.
C27_Witness ==
    /\ pomodoroRunning
    /\ isBreak
    /\ currentCycle = 1
    /\ getCycles = 2
    /\ pomodoroSeconds > 0

\* C28: a started Pomodoro that keeps receiving ticks and is left alone finishes: a
\* run of N cycles starts with N*workDuration*60 + (N - 1)*breakDuration*60 ticks to
\* go, every tick takes one of them, a change of segment takes none, handlePomodoroSave
\* is called exactly when none is left, and a running timer always comes to a stop.
TicksToGo ==
    pomodoroSeconds + SecondsPerMinute *
        (IF isBreak
         THEN (getCycles - currentCycle) * getWorkDuration
                + (getCycles - currentCycle - 1) * getBreakDuration
         ELSE (getCycles - currentCycle) * (getWorkDuration + getBreakDuration))

C28_RunFinishes ==
    /\ [][/\ ClickPomodoroStart
               => TicksToGo' = SecondsPerMinute
                     * (getCycles * getWorkDuration + (getCycles - 1) * getBreakDuration)
          /\ PomodoroTick => TicksToGo' = TicksToGo - 1
          /\ handlePomodoroComplete
               => IF pomodoroRunning' THEN TicksToGo' = TicksToGo
                  ELSE TicksToGo = 0 /\ savedInRun']_vars
    /\ (pomodoroRunning ~> ~pomodoroRunning)

\* A run of two cycles has just finished by itself, its save is sent.
C28_Witness ==
    /\ ~pomodoroRunning
    /\ pomodoroSeconds = 0
    /\ currentCycle = 2
    /\ sent # << >>
    /\ workTicks = 2 * SecondsPerMinute

\* formatTime (formatters.ts:15-21): hours, minutes and seconds of a duration, each
\* written with at least two digits.
formatTime(seconds) ==
    <<seconds \div SecondsPerHour,
      (seconds % SecondsPerHour) \div SecondsPerMinute,
      seconds % SecondsPerMinute>>

\* The duration under "Total work time this session" (Timer.tsx:297-300).
displayedTotalWorkTime ==
    totalWorkTime
      + (IF isBreak \/ pomodoroSeconds = 0 THEN 0
         ELSE getWorkDuration * SecondsPerMinute - pomodoroSeconds)

\* C29: whenever 'Save & Quit' is offered (pomodoroSeconds > 0), the time shown as
\* 'Total work time this session' is the duration handlePomodoroSave would send, and
\* a click on 'Save & Quit' that sends a session sends the duration that was shown.
C29_ShownIsWhatIsSaved ==
    /\ [](PomodoroSaveOffered
            => /\ displayedTotalWorkTime = finalWorkTime
               /\ formatTime(displayedTotalWorkTime) = formatTime(finalWorkTime))
    /\ [][(ClickPomodoroSave /\ sent' # << >>)
            => sent'[1].focus_time_seconds = displayedTotalWorkTime]_vars

\* 'Save & Quit' was clicked in the second work segment: the sent duration is made of
\* a completed segment and a part of the current one.
C29_Witness ==
    /\ sent # << >>
    /\ sent[1].from = "pomodoro"
    /\ pomodoroSeconds > 0
    /\ ~isBreak
    /\ totalWorkTime > 0
    /\ currentWorkProgress > 0
    /\ sent[1].focus_time_seconds = totalWorkTime + currentWorkProgress

\* C30: the Pomodoro success message and the Pomodoro error message are never both
\* set.
C30_MessageOrError ==
    ~(pomodoroMessage # MsgNone /\ pomodoroError # MsgNone)

====
